---- MODULE Spec2Model ----
(***************************************************************************)
(* GRNVS transfer client (Transfer_Protocol/assignment4.py).               *)
(*                                                                         *)
(* A byte string is a sequence of one-character strings; the symbol "xFF"  *)
(* stands for one byte that is not valid UTF-8.  Two specifications:       *)
(*   Spec      the session run() against a server that may send any frame  *)
(*             of a bounded menu at any time;                              *)
(*   SpecChan  the receive_message closure alone, called repeatedly on     *)
(*             either channel while the transport delivers byte chunks.    *)
(***************************************************************************)
EXTENDS Integers, Sequences, FiniteSets, TLC

VARIABLES
    pc,                 \* position of run()/build_data_channel(), or "harness"
    message, nick, dport,   \* inputs of run() and the bound data port
    server_address,         \* peer address of the accepted data connection
    rx,                 \* the receive_message call in progress
    control_netstrings, \* closure variable, residual of channel 0
    data_netstrings,    \* closure variable, residual of channel 1
    inflight,           \* bytes sent by the peer and not yet read, per channel
    ret,                \* value returned by the last receive_message call
    log,                \* records of the completed receive_message calls
    trace,              \* frames sent and messages returned, in program order
    token, dtoken,      \* control token and data token
    status, exitCode, error,   \* process state, exit status, printed diagnostic
    open,               \* sockets: control, listener, data
    pushes, calls,      \* counters bounding the environment
    ahead,              \* frames sent by the server and not yet returned as messages
    pending,            \* connection request at the data listener: an address, "refused" or "none"
    broken,             \* channels whose connection the peer has reset
    parsed              \* results of the two length parsers on one string

vars == <<pc, message, nick, dport, server_address, rx, control_netstrings,
          data_netstrings, inflight, ret, log, trace, token, dtoken,
          status, exitCode, error, open, pushes, calls, ahead,
          pending, broken, parsed>>

-----------------------------------------------------------------------------
(* Bounds *)
MaxAhead == 1      \* frames the server may have sent ahead of the client
MaxFeed  == 2      \* chunks the transport delivers in the channel harness
MaxCalls == 2      \* receive_message calls in the channel harness
MaxLen == 3        \* length of the strings handed to the length parsers

(* Program constants *)
BUFFER_SIZE == 1024

-----------------------------------------------------------------------------
(* Byte-string helpers *)
Digit == <<"0", "1", "2", "3", "4", "5", "6", "7", "8", "9">>
DigitSet == {Digit[i] : i \in 1..10}
DigitVal(c) == (CHOOSE i \in 1..10 : Digit[i] = c) - 1
NonZeroDigitSet == DigitSet \ {"0"}
WhiteSpace == {" ", "\t", "\n", "\r"}
NonUtf8 == "xFF"

Min(a, b) == IF a < b THEN a ELSE b
Max(a, b) == IF a > b THEN a ELSE b

\* Python index normalisation and slicing s[a:b], s[a:]
PyIdx(i, n) == IF i < 0 THEN Max(i + n, 0) ELSE Min(i, n)
PySlice(s, a, b) == SubSeq(s, PyIdx(a, Len(s)) + 1, PyIdx(b, Len(s)))
PySliceFrom(s, a) == SubSeq(s, PyIdx(a, Len(s)) + 1, Len(s))

\* str(n) for n >= 0
RECURSIVE DecStr(_)
DecStr(n) == IF n < 10 THEN <<Digit[n + 1]>>
             ELSE DecStr(n \div 10) \o <<Digit[(n % 10) + 1]>>

\* value of a non-empty all-digit string
RECURSIVE DigitsVal(_)
DigitsVal(s) == IF s = <<>> THEN 0
                ELSE 10 * DigitsVal(SubSeq(s, 1, Len(s) - 1)) + DigitVal(s[Len(s)])

\* index of the first occurrence of byte c in s, 0 if none
FirstIdx(s, c) == IF \E i \in 1..Len(s) : s[i] = c
                  THEN CHOOSE i \in 1..Len(s) : s[i] = c /\ \A j \in 1..(i - 1) : s[j] # c
                  ELSE 0

\* bytes.split(sep, 1)
SplitOnce(s, c) == LET i == FirstIdx(s, c) IN
                   IF i = 0 THEN <<s>>
                   ELSE <<SubSeq(s, 1, i - 1), SubSeq(s, i + 1, Len(s))>>

\* bytes.split(sep)
RECURSIVE SplitAll(_, _)
SplitAll(s, c) == LET i == FirstIdx(s, c) IN
                  IF i = 0 THEN <<s>>
                  ELSE <<SubSeq(s, 1, i - 1)>> \o SplitAll(SubSeq(s, i + 1, Len(s)), c)

\* bytes.decode() succeeds
IsUtf8(s) == \A i \in 1..Len(s) : s[i] # NonUtf8

RECURSIVE StripLeft(_)
StripLeft(s) == IF s # <<>> /\ s[1] \in WhiteSpace THEN StripLeft(Tail(s)) ELSE s
RECURSIVE StripRight(_)
StripRight(s) == IF s # <<>> /\ s[Len(s)] \in WhiteSpace
                 THEN StripRight(SubSeq(s, 1, Len(s) - 1)) ELSE s

\* int(b) of the interpreter, base 10: surrounding whitespace, a sign and
\* single underscores between digits are accepted
PyInt(s) ==
    LET t    == StripRight(StripLeft(s))
        sgn  == t # <<>> /\ t[1] \in {"+", "-"}
        body == IF sgn THEN Tail(t) ELSE t
        ok   == /\ body # <<>>
                /\ body[1] \in DigitSet /\ body[Len(body)] \in DigitSet
                /\ \A i \in 1..Len(body) : body[i] \in DigitSet \cup {"_"}
                /\ \A i \in 1..(Len(body) - 1) : ~(body[i] = "_" /\ body[i + 1] = "_")
        digs == SelectSeq(body, LAMBDA c : c \in DigitSet)
    IN IF ~ok THEN [ok |-> FALSE, val |-> 0]
       ELSE [ok |-> TRUE,
             val |-> IF sgn /\ t[1] = "-" THEN 0 - DigitsVal(digs) ELSE DigitsVal(digs)]

\* string_to_int: re.match(r'^[1-9]\d*$'), where $ also matches before one
\* trailing newline, then int()
string_to_int(s) ==
    LET core == IF s # <<>> /\ s[Len(s)] = "\n" THEN SubSeq(s, 1, Len(s) - 1) ELSE s
        ok   == /\ core # <<>>
                /\ core[1] \in NonZeroDigitSet
                /\ \A i \in 1..Len(core) : core[i] \in DigitSet
    IN IF ok THEN [ok |-> TRUE, val |-> DigitsVal(core)] ELSE [ok |-> FALSE, val |-> 0]

\* no parse recorded
NoParse == [msglen |-> [ok |-> FALSE, val |-> 0], framelen |-> [ok |-> FALSE, val |-> 0]]

\* string_to_netstring
string_to_netstring(m) == DecStr(Len(m)) \o <<":">> \o m \o <<",">>

-----------------------------------------------------------------------------
(* The decoder inside receive_message *)

\* line 91
LengthPrefixRejected(length) ==
    length # <<>> /\ length[1] \in {"0", "+"}

\* line 98
NoComma(data, length) ==
    Len(data) < length + 1 \/ PySlice(data, length, length + 1) # <<",">>

\* line 102 with the tail of the buffer thrown away
RemainderDropped(data, length) == <<>>

\* line 102
Remainder(data, length) ==
    IF Len(data) > length + 1 THEN PySliceFrom(data, length + 1) ELSE <<>>

NoResult == [ok |-> FALSE, err |-> "none", message |-> <<>>, rest |-> <<>>]
DecErr(kind) == [ok |-> FALSE, err |-> kind, message |-> <<>>, rest |-> <<>>]

\* lines 86-102
Decode(netstrings) ==
    LET parts  == SplitOnce(netstrings, ":")
        length == parts[1]
        data   == parts[2]
        n      == PyInt(length)
    IN IF Len(parts) # 2 THEN DecErr("no colon")
       ELSE IF LengthPrefixRejected(length) THEN DecErr("startswith 0 or +")
       ELSE IF ~n.ok THEN DecErr("invalid length")
       ELSE IF NoComma(data, n.val) THEN DecErr("no comma")
       ELSE [ok |-> TRUE, err |-> "none",
             message |-> PySlice(data, 0, n.val),
             rest |-> Remainder(data, n.val)]

-----------------------------------------------------------------------------
(* Process and socket bookkeeping *)

SockOf(ch) == IF ch = 0 THEN "control" ELSE "data"

NoError == [kind |-> "none", text |-> <<>>]
Err(kind, text) == [kind |-> kind, text |-> text]

SendEv(ch, body) == [ev |-> "send", ch |-> ch, body |-> body, err |-> NoError]
ErrEv(ch, e)     == [ev |-> "send", ch |-> ch, body |-> <<>>, err |-> e]
RecvEv(ch, body) == [ev |-> "recv", ch |-> ch, body |-> body, err |-> NoError]
\* a sock.sendall that raised: nothing was sent; err is the error of the E
\* frame that was being sent, NoError for any other frame
FailEv(ch, body, e) == [ev |-> "sendfail", ch |-> ch, body |-> body, err |-> e]

\* sock.sendall raises on a connection the peer has reset
SendFails(ch) == ch \in broken

\* leaving run(): the two "with" blocks close the control socket and the
\* listener; sock is the socket closed explicitly, "none" if there is none
CloseOnExit(sock) ==
    [s \in DOMAIN open |->
        IF s = sock THEN "closed"
        ELSE IF pc # "harness" /\ s \in {"control", "listener"}
                /\ open[s] \notin {"unopened", "closed"}
             THEN "closed"
        ELSE open[s]]

\* sock.sendall raised and nothing catches it: the statements after it
\* (print, sock.close(), sys.exit()) are skipped, the traceback names the
\* socket error, exit status 1
BrokenPipe(ch, body, e) ==
    /\ trace' = Append(trace, FailEv(ch, body, e))
    /\ error' = Err("BrokenPipeError", <<>>)
    /\ open' = CloseOnExit("none")
    /\ status' = "crashed"
    /\ exitCode' = 1

\* send_error without line 51: the process goes on after the E frame
send_error_noexit(e, ch) ==
    /\ trace' = Append(trace, ErrEv(ch, e))
    /\ error' = e
    /\ open' = [open EXCEPT ![SockOf(ch)] = "closed"]
    /\ UNCHANGED <<status, exitCode>>

\* send_error: E frame, diagnostic, sock.close(), sys.exit()
send_error(e, ch) ==
    IF SendFails(ch) THEN BrokenPipe(ch, <<>>, e)
    ELSE /\ trace' = Append(trace, ErrEv(ch, e))
         /\ error' = e
         /\ open' = CloseOnExit(SockOf(ch))
         /\ status' = "exited"
         /\ exitCode' = 0

\* lines 80-85: same steps, but sys.exit(1)
ExitNoData(ch) ==
    IF SendFails(ch) THEN BrokenPipe(ch, <<>>, Err("no netstring received", <<>>))
    ELSE /\ trace' = Append(trace, ErrEv(ch, Err("no netstring received", <<>>)))
         /\ error' = Err("no netstring received", <<>>)
         /\ open' = CloseOnExit(SockOf(ch))
         /\ status' = "exited"
         /\ exitCode' = 1

\* an exception nothing catches: traceback, exit status 1, no E frame
Crash(exc) ==
    /\ trace' = trace
    /\ error' = Err(exc, <<>>)
    /\ open' = CloseOnExit("none")
    /\ status' = "crashed"
    /\ exitCode' = 1

-----------------------------------------------------------------------------
(* receive_message: inner(sock, channel) *)

Idle == [active |-> FALSE, ch |-> 0, at |-> 0, netstrings |-> <<>>, start |-> <<>>,
         segs |-> <<>>, recvs |-> 0]

\* line 68 with the control channel's residual taken for either channel
StartRxControlOnly(ch, at) ==
    [active |-> TRUE, ch |-> ch, at |-> at,
     netstrings |-> control_netstrings, start |-> control_netstrings,
     segs |-> <<>>, recvs |-> 0]

\* line 68; at is the line of the call, 0 in the harness
StartRx(ch, at) == [active |-> TRUE, ch |-> ch, at |-> at,
                netstrings |-> IF ch = 0 THEN control_netstrings ELSE data_netstrings,
                start |-> IF ch = 0 THEN control_netstrings ELSE data_netstrings,
                segs |-> <<>>, recvs |-> 0]

\* line 111
IsErrorMessage(m) == SplitAll(m, " ")[1] = <<"E">>

\* line 112: the text handed to send_error
ErrorArgument(m) == SplitAll(m, " ")[2]

\* outcome of lines 79-113 on the accumulated buffer
Outcome(netstrings) ==
    LET d == Decode(netstrings) IN
    IF netstrings = <<>> THEN [kind |-> "exit", err |-> Err("no netstring received", <<>>)]
    ELSE IF ~d.ok THEN [kind |-> "exit", err |-> Err(d.err, netstrings)]
    ELSE IF ~IsErrorMessage(d.message) THEN [kind |-> "ok", err |-> NoError]
    ELSE IF Len(SplitAll(d.message, " ")) < 2
         THEN [kind |-> "crash", err |-> Err("IndexError", <<>>)]
    ELSE IF ~IsUtf8(ErrorArgument(d.message))
         THEN [kind |-> "crash", err |-> Err("UnicodeDecodeError", <<>>)]
    ELSE [kind |-> "exit", err |-> Err("remote", ErrorArgument(d.message))]

\* line 75 with = in place of +=
AccumulateOverwrite(netstrings, data) == data

\* line 75
Accumulate(netstrings, data) == netstrings \o data

\* lines 69-75: one sock.recv that returns data
RecvSegment ==
    /\ status = "running" /\ rx.active
    /\ inflight[rx.ch] # <<>>
    /\ LET n    == Min(Len(inflight[rx.ch]), BUFFER_SIZE)
           data == SubSeq(inflight[rx.ch], 1, n)
       IN /\ rx' = [rx EXCEPT !.netstrings = Accumulate(@, data),
                              !.segs = Append(@, data),
                              !.recvs = @ + 1]
          /\ inflight' = [inflight EXCEPT ![rx.ch] =
                              SubSeq(@, n + 1, Len(@))]
    /\ UNCHANGED <<pc, message, nick, dport, server_address, control_netstrings,
                   data_netstrings, ret, log, trace, token, dtoken, status,
                   exitCode, error, open, pushes, calls, ahead>>
    /\ UNCHANGED <<pending, broken, parsed>>

\* lines 76-113: the sock.recv that times out (or reports end of stream)
\* ends the loop; the buffer is decoded
RecvEnd ==
    /\ status = "running" /\ rx.active
    /\ inflight[rx.ch] = <<>>
    /\ LET ch  == rx.ch
           buf == rx.netstrings
           d   == Decode(buf)
           o   == Outcome(buf)
           after == IF buf # <<>> /\ d.ok THEN d.rest ELSE rx.start
       IN /\ log' = Append(log, [ch |-> ch, at |-> rx.at, buf |-> buf, start |-> rx.start,
                                 segs |-> rx.segs, recvs |-> rx.recvs + 1,
                                 dec |-> d, kind |-> o.kind, err |-> o.err,
                                 after |-> after])
          /\ control_netstrings' =
                IF buf # <<>> /\ d.ok /\ ch = 0 THEN d.rest ELSE control_netstrings
          /\ data_netstrings' =
                IF buf # <<>> /\ d.ok /\ ch = 1 THEN d.rest ELSE data_netstrings
          /\ IF buf = <<>> THEN ExitNoData(ch) /\ ret' = ret
             ELSE IF o.kind = "exit" THEN send_error(o.err, ch) /\ ret' = ret
             ELSE IF o.kind = "crash" THEN Crash(o.err.kind) /\ ret' = ret
             ELSE /\ ret' = d.message
                  /\ trace' = Append(trace, RecvEv(ch, d.message))
                  /\ UNCHANGED <<status, exitCode, error, open>>
          /\ ahead' = IF o.kind = "ok" THEN Max(ahead - 1, 0) ELSE ahead
    /\ rx' = Idle
    /\ UNCHANGED <<pc, message, nick, dport, server_address, inflight, token, dtoken,
                   pushes, calls>>
    /\ UNCHANGED <<pending, broken, parsed>>

-----------------------------------------------------------------------------
(* SpecChan: the closure alone *)

abc == <<"a", "b", "c">>
xy  == <<"x", "y">>

\* messages whose encoding the transport may deliver
Msgs == { <<>>, abc, xy, <<"a", ":", ",">>, <<"S", " ", "1", "2">> }

\* chunks a transport read may deliver
Chunks ==
    { string_to_netstring(m) : m \in Msgs } \cup
    { <<"3", ":", "a", "b", "c", ",", "2", ":", "x", "y", ",">>,
      <<"3", ":", "a", "b">>, <<"c", ",">>,
      <<"0", "0", ":", ",">>,
      <<"+", "3", ":", "a", "b", "c", ",">>,
      <<"3", "a", "b", "c", ",">>,
      <<"3", ":", "a", "b", ",">>,
      <<":", "a", ",">>,
      <<" ", "3", ":", "a", "b", "c", ",">>,
      <<"-", "2", ":", "a", ",", "b">>,
      <<"-", "3", ":", "a", "b", "c", ",">>,
      <<"1", "_", "0", ":", "a", ",">>,
      <<"1", "_", ":", "a", ",">>,
      <<"1", ":", "E", ",">>,
      <<"5", ":", "E", " ", "a", " ", "b", ",">>,
      <<"5", ":", "E", " ", NonUtf8, " ", "b", ",">> }

InitChan ==
    /\ pc = "harness"
    /\ message = <<>> /\ nick = <<>> /\ dport = 0 /\ server_address = "none"
    /\ rx = Idle
    /\ control_netstrings = <<>> /\ data_netstrings = <<>>
    /\ inflight = [c \in {0, 1} |-> <<>>]
    /\ ret = <<>> /\ log = <<>> /\ trace = <<>>
    /\ token = <<>> /\ dtoken = <<>>
    /\ status = "running" /\ exitCode = 0 /\ error = NoError
    /\ open = [s \in {"control", "listener", "data"} |->
                  IF s = "listener" THEN "unopened" ELSE "open"]
    /\ pushes = 0 /\ calls = 0 /\ ahead = 0
    /\ pending = "none" /\ broken = {} /\ parsed = NoParse

\* the transport delivers a chunk on a channel
Feed ==
    /\ status = "running" /\ pushes < MaxFeed
    /\ \E ch \in {0, 1}, c \in Chunks :
          inflight' = [inflight EXCEPT ![ch] = @ \o c]
    /\ pushes' = pushes + 1
    /\ UNCHANGED <<pc, message, nick, dport, server_address, rx, control_netstrings,
                   data_netstrings, ret, log, trace, token, dtoken, status,
                   exitCode, error, open, calls, ahead>>
    /\ UNCHANGED <<pending, broken, parsed>>

\* a caller invokes receive_message(sock, ch)
Call ==
    /\ status = "running" /\ ~rx.active /\ calls < MaxCalls
    /\ \E ch \in {0, 1} : rx' = StartRx(ch, 0)
    /\ calls' = calls + 1
    /\ UNCHANGED <<pc, message, nick, dport, server_address, control_netstrings,
                   data_netstrings, inflight, ret, log, trace, token, dtoken,
                   status, exitCode, error, open, pushes, ahead>>
    /\ UNCHANGED <<pending, broken, parsed>>

NextChan == Feed \/ Call \/ RecvSegment \/ RecvEnd

SpecChan == InitChan /\ [][NextChan]_vars

-----------------------------------------------------------------------------
(* Spec: run() and build_data_channel() *)

GRNVS == <<"G", "R", "N", "V", "S", " ", "V", ":", "1", ".", "0">>
C_HELLO == <<"C", " ">> \o GRNVS
S_HELLO == <<"S", " ">> \o GRNVS
T_HELLO == <<"T", " ">> \o GRNVS
S_ACK   == <<"S", " ", "A", "C", "K">>

\* inputs of run()
Messages == { <<"h", "i">>, <<>> }
Nicks == { <<"n">> }
DPorts == { 50000 }
dst_address == "::1"
Addresses == { "::1", "::2" }

\* tokens the server issues on the control channel, and tokens it presents
\* on the data channel
ControlTokens == { <<"a">>, <<"a", " ", "b">> }
Tokens == ControlTokens \cup { <<"b">> }

\* messages the server may send on the control and on the data channel
ControlMenu ==
    { S_HELLO, S_ACK, <<"E">>, <<"E", " ", "a", " ", "b">>,
      <<"S", " ", NonUtf8>>,
      <<"S", " ", "2">>, <<"S", " ", "1">>, <<"S", " ", "0">> }
    \cup { <<"S", " ">> \o t : t \in ControlTokens }
DataMenu ==
    { T_HELLO, <<"T">>, <<"E", " ", "a", " ", "b">> }
    \cup { <<"T", " ">> \o t : t \in Tokens }
Menu(ch) == IF ch = 0 THEN ControlMenu ELSE DataMenu

Init ==
    /\ pc = "L165"
    /\ message \in Messages /\ nick \in Nicks /\ dport \in DPorts
    /\ server_address = "none"
    /\ rx = Idle
    /\ control_netstrings = <<>> /\ data_netstrings = <<>>
    /\ inflight = [c \in {0, 1} |-> <<>>]
    /\ ret = <<>> /\ log = <<>> /\ trace = <<>>
    /\ token = <<>> /\ dtoken = <<>>
    /\ status = "running" /\ exitCode = 0 /\ error = NoError
    /\ open = [s \in {"control", "listener", "data"} |->
                  IF s = "control" THEN "open" ELSE "unopened"]
    /\ pushes = 0 /\ calls = 0 /\ ahead = 0
    /\ pending = "none" /\ broken = {} /\ parsed = NoParse

\* the server sends one frame.  The client looks at a channel only inside
\* a receive_message call, which reads whatever has arrived by then, so a
\* frame sent earlier has the effect of one sent while the call is waiting:
\* the server sends on the channel that is being received on.
ServerSend ==
    /\ status = "running" /\ ahead < MaxAhead
    /\ rx.active /\ open[SockOf(rx.ch)] = "open"
    /\ \E m \in Menu(rx.ch) :
          inflight' = [inflight EXCEPT ![rx.ch] = @ \o string_to_netstring(m)]
    /\ ahead' = ahead + 1
    /\ UNCHANGED <<pc, message, nick, dport, server_address, rx, control_netstrings,
                   data_netstrings, ret, log, trace, token, dtoken, status,
                   exitCode, error, open, pushes, calls>>
    /\ UNCHANGED <<pending, broken, parsed>>

\* send_message
send_message(m, ch) == trace' = Append(trace, SendEv(ch, string_to_netstring(m)))

Stay == UNCHANGED <<status, exitCode, error, open>>
Ready(l) == status = "running" /\ pc = l /\ ~rx.active

\* lines 164-167
Hello ==
    /\ Ready("L165")
    /\ IF SendFails(0)
       THEN /\ BrokenPipe(0, string_to_netstring(C_HELLO), NoError)
            /\ UNCHANGED <<pc, rx>>
       ELSE /\ send_message(C_HELLO, 0)
            /\ rx' = StartRx(0, 167)
            /\ pc' = "L168"
            /\ Stay
    /\ UNCHANGED <<message, nick, dport, server_address, control_netstrings,
                   data_netstrings, inflight, ret, log, token, dtoken, pushes,
                   calls, ahead>>
    /\ UNCHANGED <<pending, broken, parsed>>

\* lines 168-173
CheckHello ==
    /\ Ready("L168")
    /\ IF ret # S_HELLO
       THEN /\ send_error(Err("invalid message, expected S GRNVS V:1.0", ret), 0)
            /\ UNCHANGED <<pc, rx>>
       ELSE IF SendFails(0)
       THEN /\ BrokenPipe(0, string_to_netstring(<<"C", " ">> \o nick), NoError)
            /\ UNCHANGED <<pc, rx>>
       ELSE /\ send_message(<<"C", " ">> \o nick, 0)
            /\ rx' = StartRx(0, 173)
            /\ pc' = "L174"
            /\ Stay
    /\ UNCHANGED <<message, nick, dport, server_address, control_netstrings,
                   data_netstrings, inflight, ret, log, token, dtoken, pushes,
                   calls, ahead>>
    /\ UNCHANGED <<pending, broken, parsed>>

\* lines 174-189: the control token, the bound data socket, C <port>
CheckToken ==
    /\ Ready("L174")
    /\ LET parts == SplitOnce(ret, " ") IN
       IF Len(parts) # 2 \/ parts[1] # <<"S">>
       THEN /\ send_error(Err("invalid message, expected S <token>", ret), 0)
            /\ UNCHANGED <<pc, token>>
       ELSE IF SendFails(0)
       THEN /\ BrokenPipe(0, string_to_netstring(<<"C", " ">> \o DecStr(dport)), NoError)
            /\ UNCHANGED <<pc, token>>
       ELSE /\ token' = parts[2]
            /\ send_message(<<"C", " ">> \o DecStr(dport), 0)
            /\ open' = [open EXCEPT !["listener"] = "bound"]
            /\ pc' = "L122"
            /\ UNCHANGED <<status, exitCode, error>>
    /\ UNCHANGED <<message, nick, dport, server_address, rx, control_netstrings,
                   data_netstrings, inflight, ret, log, dtoken, pushes, calls, ahead>>
    /\ UNCHANGED <<pending, broken, parsed>>

\* line 122
Listen ==
    /\ Ready("L122")
    /\ open' = [open EXCEPT !["listener"] = "listening"]
    /\ pc' = "L124"
    /\ UNCHANGED <<message, nick, dport, server_address, rx, control_netstrings,
                   data_netstrings, inflight, ret, log, trace, token, dtoken,
                   status, exitCode, error, pushes, calls, ahead>>
    /\ UNCHANGED <<pending, broken, parsed>>

\* the server connects to the data port it was told.  The listener has no
\* timeout and accept() returns only when a connection is waiting; a
\* connection made after bind() and before listen() is refused
ServerConnect ==
    /\ status = "running" /\ server_address = "none"
    /\ open["listener"] \in {"bound", "listening"}
    /\ pending \in {"none", "refused"}
    /\ IF open["listener"] = "bound"
       THEN pending' = "refused"
       ELSE \E a \in Addresses : pending' = a
    /\ UNCHANGED <<pc, message, nick, dport, server_address, rx, control_netstrings,
                   data_netstrings, inflight, ret, log, trace, token, dtoken,
                   status, exitCode, error, open, pushes, calls, ahead,
                   broken, parsed>>

\* line 126 with the comparison left out
AddressOkAny(peer, dst) == TRUE

\* line 126
AddressOk(peer, dst) == peer = dst

\* lines 124-130: accept, check the peer address, first data receive
Accept ==
    /\ Ready("L124")
    /\ pending \in Addresses
    /\ server_address' = pending
    /\ pending' = "none"
    /\ IF ~AddressOk(pending, dst_address)
       THEN /\ send_error(Err("invalid server address", <<>>), 1)
            /\ UNCHANGED <<pc, rx>>
       ELSE /\ open' = [open EXCEPT !["data"] = "open"]
            /\ rx' = StartRx(1, 130)
            /\ pc' = "L131"
            /\ UNCHANGED <<trace, status, exitCode, error>>
    /\ UNCHANGED <<message, nick, dport, control_netstrings, data_netstrings,
                   inflight, ret, log, token, dtoken, pushes, calls, ahead>>
    /\ UNCHANGED <<broken, parsed>>

\* lines 131-137
CheckDataHello ==
    /\ Ready("L131")
    /\ IF ret # T_HELLO
       THEN /\ send_error(Err("invalid message, expected T GRNVS V:1.0", ret), 1)
            /\ UNCHANGED <<pc, rx>>
       ELSE IF SendFails(1)
       THEN /\ BrokenPipe(1, string_to_netstring(<<"D", " ">> \o nick), NoError)
            /\ UNCHANGED <<pc, rx>>
       ELSE /\ send_message(<<"D", " ">> \o nick, 1)
            /\ rx' = StartRx(1, 137)
            /\ pc' = "L138"
            /\ Stay
    /\ UNCHANGED <<message, nick, dport, server_address, control_netstrings,
                   data_netstrings, inflight, ret, log, token, dtoken, pushes,
                   calls, ahead>>
    /\ UNCHANGED <<pending, broken, parsed>>

\* line 142 with the token comparison left out
TokenOkTagOnly(begin, received_token, tok) == begin = <<"T">>

\* line 142
TokenOk(begin, received_token, tok) == begin = <<"T">> /\ received_token = tok

\* lines 138-150: the data-channel token, then D <message>
CheckDataToken ==
    /\ Ready("L138")
    /\ LET parts == SplitAll(ret, " ") IN
       IF Len(parts) # 2 \/ ~TokenOk(parts[1], parts[2], token)
       THEN /\ send_error(Err("invalid message, expected T <token>", ret), 1)
            /\ UNCHANGED <<pc, rx>>
       ELSE IF SendFails(1)
       THEN /\ BrokenPipe(1, string_to_netstring(<<"D", " ">> \o message), NoError)
            /\ UNCHANGED <<pc, rx>>
       ELSE /\ send_message(<<"D", " ">> \o message, 1)
            /\ rx' = StartRx(1, 150)
            /\ pc' = "L151"
            /\ Stay
    /\ UNCHANGED <<message, nick, dport, server_address, control_netstrings,
                   data_netstrings, inflight, ret, log, token, dtoken, pushes,
                   calls, ahead>>
    /\ UNCHANGED <<pending, broken, parsed>>

\* lines 151-204: close the data socket, take the data token, leave the
\* listener's "with" block, receive on the control channel
CloseData ==
    /\ Ready("L151")
    /\ LET parts == SplitOnce(ret, " ") IN
       IF Len(parts) # 2 \/ parts[1] # <<"T">>
       THEN /\ IF SendFails(0)
               THEN /\ trace' = Append(trace, FailEv(0, <<>>,
                                  Err("invalid message, expected T <token>", ret)))
                    /\ error' = Err("BrokenPipeError", <<>>)
                    /\ status' = "crashed" /\ exitCode' = 1
               ELSE /\ trace' = Append(trace,
                                  ErrEv(0, Err("invalid message, expected T <token>", ret)))
                    /\ error' = Err("invalid message, expected T <token>", ret)
                    /\ status' = "exited" /\ exitCode' = 0
            /\ open' = [s \in DOMAIN open |-> "closed"]
            /\ UNCHANGED <<pc, rx, dtoken>>
       ELSE /\ dtoken' = parts[2]
            /\ open' = [open EXCEPT !["data"] = "closed", !["listener"] = "closed"]
            /\ rx' = StartRx(0, 204)
            /\ pc' = "L205"
            /\ UNCHANGED <<trace, status, exitCode, error>>
    /\ UNCHANGED <<message, nick, dport, server_address, control_netstrings,
                   data_netstrings, inflight, ret, log, token, pushes, calls, ahead>>
    /\ UNCHANGED <<pending, broken, parsed>>

\* line 218
LengthOk(msglen, msg) == msglen = Len(msg)

\* line 222 with the length of the token in place of the length of sent_bytes
ForwardFrameTokenLength(tok) ==
    LET sent_bytes == <<"C", " ">> \o tok
    IN DecStr(Len(tok)) \o <<":">> \o sent_bytes \o <<",">>

\* lines 221-223: the frame that forwards the data token, built directly
ForwardFrame(tok) ==
    LET sent_bytes == <<"C", " ">> \o tok
    IN DecStr(Len(sent_bytes)) \o <<":">> \o sent_bytes \o <<",">>

\* lines 205-225: S <msglen>, the length check, C <dataToken>
CheckLength ==
    /\ Ready("L205")
    /\ LET parts  == SplitAll(ret, " ")
           msglen == string_to_int(parts[2])
       IN IF ~IsUtf8(ret)
          THEN /\ send_error(Err("invalid utf-8 message", ret), 0)
               /\ UNCHANGED <<pc, rx>>
          ELSE IF Len(parts) # 2 \/ parts[1] # <<"S">> \/ ~msglen.ok
          THEN /\ send_error(Err("invalid message, expected S <msglen>", ret), 0)
               /\ UNCHANGED <<pc, rx>>
          ELSE IF ~LengthOk(msglen.val, message)
          THEN /\ send_error(Err("wrong message length", ret), 0)
               /\ UNCHANGED <<pc, rx>>
          ELSE IF SendFails(0)
          THEN /\ BrokenPipe(0, ForwardFrame(dtoken), NoError)
               /\ UNCHANGED <<pc, rx>>
          ELSE /\ trace' = Append(trace, SendEv(0, ForwardFrame(dtoken)))
               /\ rx' = StartRx(0, 225)
               /\ pc' = "L226"
               /\ Stay
    /\ UNCHANGED <<message, nick, dport, server_address, control_netstrings,
                   data_netstrings, inflight, ret, log, token, dtoken, pushes,
                   calls, ahead>>
    /\ UNCHANGED <<pending, broken, parsed>>

\* lines 226-227 and the end of run()
CheckAck ==
    /\ Ready("L226")
    /\ IF ret # S_ACK
       THEN /\ send_error(Err("invalid message, expected S ACK", ret), 0)
            /\ pc' = pc
       ELSE /\ status' = "done" /\ exitCode' = 0
            /\ open' = CloseOnExit("none")
            /\ pc' = "end"
            /\ UNCHANGED <<trace, error>>
    /\ UNCHANGED <<message, nick, dport, server_address, rx, control_netstrings,
                   data_netstrings, inflight, ret, log, token, dtoken, pushes,
                   calls, ahead>>
    /\ UNCHANGED <<pending, broken, parsed>>

Next ==
    \/ ServerSend \/ ServerConnect \/ RecvSegment \/ RecvEnd
    \/ Hello \/ CheckHello \/ CheckToken \/ Listen \/ Accept
    \/ CheckDataHello \/ CheckDataToken \/ CloseData \/ CheckLength \/ CheckAck

Spec == Init /\ [][Next]_vars

\* the steps of the client process other than the end of a receive; accept
\* is a step only once a connection is waiting
ClientStep ==
    \/ RecvSegment
    \/ Hello \/ CheckHello \/ CheckToken \/ Listen \/ Accept
    \/ CheckDataHello \/ CheckDataToken \/ CloseData \/ CheckLength \/ CheckAck

\* lines 69-77: the sockets that recv is called on have the timeout TIME_OUT
\* (lines 128, 162), so a recv with nothing to read returns: RecvEnd is
\* enabled exactly when this holds
RecvEndEnabled == status = "running" /\ rx.active /\ inflight[rx.ch] = <<>>

\* the client keeps running and its recv calls time out, which is weak
\* fairness of ClientStep and of RecvEnd (written out for RecvEnd);
\* nothing obliges the server to send or to connect
LiveSpec ==
    /\ Init /\ [][Next]_vars
    /\ WF_vars(ClientStep)
    /\ ([]<>(~RecvEndEnabled) \/ []<><<RecvEnd>>_vars)

-----------------------------------------------------------------------------
(* SpecNet: the session over connections that the peer may reset *)

\* the peer resets the connection of channel ch
PeerReset ==
    /\ status = "running"
    /\ \E ch \in {0, 1} :
          /\ open[SockOf(ch)] = "open" /\ ch \notin broken
          /\ broken' = broken \cup {ch}
    /\ UNCHANGED <<pc, message, nick, dport, server_address, rx, control_netstrings,
                   data_netstrings, inflight, ret, log, trace, token, dtoken,
                   status, exitCode, error, open, pushes, calls, ahead,
                   pending, parsed>>

\* lines 69-77: sock.recv raises ConnectionResetError, which the
\* "except socket.timeout" does not catch
RecvFail ==
    /\ status = "running" /\ rx.active
    /\ rx.ch \in broken
    /\ Crash("ConnectionResetError")
    /\ UNCHANGED <<pc, message, nick, dport, server_address, rx, control_netstrings,
                   data_netstrings, inflight, ret, log, token, dtoken,
                   pushes, calls, ahead, pending, broken, parsed>>

NextNet == Next \/ PeerReset \/ RecvFail

SpecNet == Init /\ [][NextNet]_vars

-----------------------------------------------------------------------------
(* SpecParse: the two length parsers on the same string *)

ParseAlphabet == {"0", "1", "2", "+", "-", "_", " ", "\n", "a"}
ParseStrings == UNION {[1..n -> ParseAlphabet] : n \in 0..MaxLen}

\* lines 91-96: the length field of a frame
FrameLength(length) ==
    IF LengthPrefixRejected(length) THEN [ok |-> FALSE, val |-> 0]
    ELSE PyInt(length)

InitParse ==
    /\ pc = "parse"
    /\ ret \in ParseStrings
    /\ message = <<>> /\ nick = <<>> /\ dport = 0 /\ server_address = "none"
    /\ rx = Idle
    /\ control_netstrings = <<>> /\ data_netstrings = <<>>
    /\ inflight = [c \in {0, 1} |-> <<>>]
    /\ log = <<>> /\ trace = <<>>
    /\ token = <<>> /\ dtoken = <<>>
    /\ status = "running" /\ exitCode = 0 /\ error = NoError
    /\ open = [s \in {"control", "listener", "data"} |-> "unopened"]
    /\ pushes = 0 /\ calls = 0 /\ ahead = 0
    /\ pending = "none" /\ broken = {} /\ parsed = NoParse

\* string_to_int(ret) and the frame-length parse of ret
ParseLengths ==
    /\ pc = "parse"
    /\ parsed' = [msglen |-> string_to_int(ret), framelen |-> FrameLength(ret)]
    /\ pc' = "parsed"
    /\ UNCHANGED <<message, nick, dport, server_address, rx, control_netstrings,
                   data_netstrings, inflight, ret, log, trace, token, dtoken,
                   status, exitCode, error, open, pushes, calls, ahead,
                   pending, broken>>

NextParse == ParseLengths

SpecParse == InitParse /\ [][NextParse]_vars

-----------------------------------------------------------------------------
(* Properties of the codec and the channel buffer (SpecChan, Spec) *)

Calls == 1..Len(log)
Done(i) == log[i]
LengthField(buf) == SplitOnce(buf, ":")[1]
HasColon(buf) == Len(SplitOnce(buf, ":")) = 2
MalformedLength == {"startswith 0 or +", "invalid length"}

\* C2: for every byte sequence m, the empty one included, decoding the frame
\* produced by encoding m succeeds and yields m with an empty remainder.
C2_RoundTrip ==
    \A i \in Calls : \A m \in Msgs :
        Done(i).buf = string_to_netstring(m) =>
            /\ Done(i).dec.ok
            /\ Done(i).dec.message = m
            /\ Done(i).dec.rest = <<>>

\* C3: "0:," is accepted as a frame with a zero-length payload; "00:," and
\* "+3:abc," are rejected for a malformed length, "3abc," for the missing
\* colon, "3:ab," for the short payload.
C3_Rejects ==
    \A i \in Calls :
        LET c == Done(i) IN
        /\ c.buf = <<"0", ":", ",">> => c.dec.ok /\ c.dec.message = <<>>
        /\ c.buf = <<"0", "0", ":", ",">> => ~c.dec.ok /\ c.dec.err \in MalformedLength
        /\ c.buf = <<"+", "3", ":", "a", "b", "c", ",">> =>
               ~c.dec.ok /\ c.dec.err \in MalformedLength
        /\ c.buf = <<"3", "a", "b", "c", ",">> => ~c.dec.ok /\ c.dec.err = "no colon"
        /\ c.buf = <<"3", ":", "a", "b", ",">> => ~c.dec.ok /\ c.dec.err = "no comma"

BadLengthField(f) ==
    \/ f = <<>>
    \/ f # <<>> /\ f[1] = "+"
    \/ Len(f) > 1 /\ f[1] = "0"
    \/ \E k \in 1..Len(f) : f[k] \notin DigitSet

\* C4: a buffer whose length field is empty, starts with '+', starts with
\* '0' and is longer than one byte, or holds a byte that is not a decimal
\* digit fails with a malformed-length error and delivers no message.
C4_MalformedLength ==
    \A i \in Calls :
        (HasColon(Done(i).buf) /\ BadLengthField(LengthField(Done(i).buf))) =>
            /\ Done(i).kind = "exit"
            /\ Done(i).err.kind \in MalformedLength

TwoFrames == <<"3", ":", "a", "b", "c", ",", "2", ":", "x", "y", ",">>

\* the first call after call i on the same channel
NextOnChannel(i, j) ==
    /\ j \in Calls /\ j > i /\ Done(j).ch = Done(i).ch
    /\ \A k \in (i + 1)..(j - 1) : Done(k).ch # Done(i).ch

OneReadTwoFrames(i) == Done(i).start = <<>> /\ Done(i).segs = <<TwoFrames>>

\* C5 as stated: one read delivers "3:abc,2:xy,"; the first call returns
\* "abc", the next call on the channel returns "xy" and performs no receive.
C5_NoFurtherReceive ==
    \A i \in Calls : OneReadTwoFrames(i) =>
        /\ Done(i).kind = "ok" /\ Done(i).dec.message = abc
        /\ \A j \in Calls : NextOnChannel(i, j) =>
              /\ Done(j).kind = "ok" /\ Done(j).dec.message = xy
              /\ Done(j).recvs = 0

\* C5 amended: one read delivers "3:abc,2:xy,"; the first call returns "abc"
\* and keeps "2:xy," as the residual; the next call on the channel returns
\* "xy", and when the transport delivers nothing more it does so from the
\* residual alone, after its single receive has returned no data.
C5_RemainderPreserved ==
    \A i \in Calls : OneReadTwoFrames(i) =>
        /\ Done(i).kind = "ok" /\ Done(i).dec.message = abc
        /\ Done(i).after = string_to_netstring(xy)
        /\ \A j \in Calls : NextOnChannel(i, j) =>
              /\ Done(j).start = string_to_netstring(xy)
              /\ Done(j).kind = "ok" /\ Done(j).dec.message = xy
              /\ Done(j).recvs >= 1
              /\ Done(j).segs = <<>> => Done(j).recvs = 1 /\ Done(j).after = <<>>

C5_Witness ==
    \E i \in Calls, j \in Calls :
        /\ OneReadTwoFrames(i) /\ NextOnChannel(i, j)
        /\ Done(j).segs = <<>> /\ Done(j).kind = "ok" /\ Done(j).dec.message = xy

DataPart(buf) == SplitOnce(buf, ":")[2]

\* C6: a frame split over two reads ("3:ab" then "c,") is returned as "abc"
\* with an empty residual; a returned message is always followed in the
\* buffer by its comma, so a partial frame is never returned.
C6_SplitFrames ==
    \A i \in Calls :
        /\ (Done(i).start = <<>> /\ Done(i).segs = << <<"3", ":", "a", "b">>, <<"c", ",">> >>)
              => /\ Done(i).kind = "ok" /\ Done(i).dec.message = abc
                 /\ Done(i).after = <<>>
        /\ Done(i).kind = "ok" =>
              /\ HasColon(Done(i).buf)
              /\ DataPart(Done(i).buf) = Done(i).dec.message \o <<",">> \o Done(i).after
        /\ Done(i).buf = <<"3", ":", "a", "b">> => Done(i).kind = "exit"

C6_Witness ==
    \E i \in Calls :
        /\ Done(i).segs = << <<"3", ":", "a", "b">>, <<"c", ",">> >>
        /\ Done(i).kind = "ok" /\ Done(i).dec.message = abc

-----------------------------------------------------------------------------
(* Properties of the session (Spec) *)

Events == 1..Len(trace)
Terminated == status # "running"

\* the replies of a server that answers every step correctly
ExpectedRecvs(tok, d) ==
    << RecvEv(0, S_HELLO), RecvEv(0, <<"S", " ">> \o tok),
       RecvEv(1, T_HELLO), RecvEv(1, <<"T", " ">> \o tok),
       RecvEv(1, <<"T", " ">> \o d),
       RecvEv(0, <<"S", " ">> \o DecStr(Len(message))), RecvEv(0, S_ACK) >>

\* the whole exchange, sends and replies in order
ExpectedTrace(tok, d) ==
    << SendEv(0, string_to_netstring(C_HELLO)), RecvEv(0, S_HELLO),
       SendEv(0, string_to_netstring(<<"C", " ">> \o nick)),
       RecvEv(0, <<"S", " ">> \o tok),
       SendEv(0, string_to_netstring(<<"C", " ">> \o DecStr(dport))),
       RecvEv(1, T_HELLO),
       SendEv(1, string_to_netstring(<<"D", " ">> \o nick)),
       RecvEv(1, <<"T", " ">> \o tok),
       SendEv(1, string_to_netstring(<<"D", " ">> \o message)),
       RecvEv(1, <<"T", " ">> \o d),
       RecvEv(0, <<"S", " ">> \o DecStr(Len(message))),
       SendEv(0, string_to_netstring(<<"C", " ">> \o d)),
       RecvEv(0, S_ACK) >>

\* every receive so far was answered with the correct frame for its step,
\* and the data connection came from the destination
ServerCorrect(tok, d) ==
    /\ Len(log) <= 7
    /\ \A i \in Calls :
          /\ Done(i).buf = string_to_netstring(ExpectedRecvs(tok, d)[i].body)
          /\ Done(i).ch = ExpectedRecvs(tok, d)[i].ch
    /\ server_address \in {"none", dst_address}

\* C1: when the server answers every step correctly the client sends
\* C GRNVS V:1.0, C <nickname>, C <port>, D <nickname>, D <message> and
\* C <dataToken>, each after the preceding reply, and the session ends in
\* success with no E frame sent.
C1_EndToEnd ==
    \A tok \in ControlTokens, d \in Tokens :
        (Terminated /\ ServerCorrect(tok, d)) =>
            /\ status = "done"
            /\ trace = ExpectedTrace(tok, d)

\* C7: on either channel and in every phase a decoded message with tag E
\* makes the receive fail with a remote-abort error that carries the whole
\* remainder of the message after the tag; the message is not returned and
\* the session halts.
C7_RemoteAbort ==
    \A i \in Calls :
        (Done(i).dec.ok /\ Done(i).buf # <<>>
            /\ (Done(i).dec.message = <<"E">> \/ SubSeq(Done(i).dec.message, 1, 2) = <<"E", " ">>)) =>
            /\ Done(i).kind = "exit"
            /\ Done(i).err.kind = "remote"
            /\ Done(i).err.text = SubSeq(Done(i).dec.message, 3, Len(Done(i).dec.message))
            /\ status = "exited"

\* the strict decimal grammar: "0", or a nonzero digit followed by digits
StrictDecimal(f) ==
    /\ f # <<>>
    /\ \A k \in 1..Len(f) : f[k] \in DigitSet
    /\ Len(f) = 1 \/ f[1] # "0"

\* the reply of phase C reports a length other than the message's
ReportsOtherLength(m) ==
    /\ Len(m) > 2 /\ SubSeq(m, 1, 2) = <<"S", " ">>
    /\ StrictDecimal(SubSeq(m, 3, Len(m)))
    /\ DigitsVal(SubSeq(m, 3, Len(m))) # Len(message)

ForwardSent == \E k \in Events : trace[k].ev = "send" /\ trace[k].body = string_to_netstring(<<"C", " ">> \o dtoken) /\ pc \in {"L226", "end"}
LengthChecked == ~(pc = "L205" /\ status = "running")

\* C8: whenever the msglen reported in phase C differs from the byte length
\* of the message, the client fails with a length-mismatch error and the
\* token-forwarding frame is never sent.
C8_LengthMismatch ==
    \A i \in Calls :
        (Done(i).at = 204 /\ Done(i).kind = "ok" /\ ReportsOtherLength(Done(i).dec.message)) =>
            /\ ~ForwardSent
            /\ LengthChecked => status = "exited" /\ error.kind = "wrong message length"

\* C9: a data connection accepted from an address other than the
\* destination makes the client fail with the address error, with no
\* D <nickname> or D <message> sent and nothing read on the data channel.
C9_AddressMismatch ==
    server_address \notin {"none", dst_address} =>
        /\ status = "exited"
        /\ error.kind = "invalid server address"
        /\ \A k \in Events : trace[k].ch = 1 => trace[k].ev = "send" /\ trace[k].err # NoError
        /\ \A i \in Calls : Done(i).ch # 1
        /\ ~rx.active

C9_Witness ==
    /\ server_address \notin {"none", dst_address}
    /\ status = "exited"
    /\ trace[Len(trace)] = ErrEv(1, Err("invalid server address", <<>>))

\* the control token of step 4: the second control reply after "S "
HasControlToken == \E i \in Calls : Done(i).at = 173 /\ Done(i).kind = "ok"
ControlToken ==
    LET i == CHOOSE c \in Calls : Done(c).at = 173
    IN SubSeq(Done(i).dec.message, 3, Len(Done(i).dec.message))

DMessageAt(k) == trace[k] = SendEv(1, string_to_netstring(<<"D", " ">> \o message))
DMessageSent == \E k \in Events : DMessageAt(k)
TokenChecked == ~(pc = "L138" /\ status = "running")

\* C10: D <message> is sent only after the data channel has delivered a T
\* message whose token equals the control token byte for byte; when the
\* delivered token differs the client fails and D <message> is never sent.
C10_TokenBeforeMessage ==
    /\ \A k \in Events : DMessageAt(k) =>
          /\ HasControlToken
          /\ \E j \in 1..(k - 1) : trace[j] = RecvEv(1, <<"T", " ">> \o ControlToken)
    /\ \A i \in Calls :
          (Done(i).at = 137 /\ Done(i).kind = "ok"
              /\ Done(i).dec.message # <<"T", " ">> \o ControlToken) =>
              /\ ~DMessageSent
              /\ TokenChecked => status = "exited"

C10_Witness ==
    /\ DMessageSent
    /\ \E i \in Calls : Done(i).at = 137 /\ Done(i).dec.message = <<"T", " ">> \o ControlToken

\* the last thing the client did on a socket was to send an E frame
LastIsErrorFrame ==
    /\ trace # <<>>
    /\ trace[Len(trace)].ev = "send"
    /\ trace[Len(trace)].err # NoError

\* C11: a run that ends on a validation failure or on an error reported by
\* the server has sent an E frame last, on the socket that saw the problem,
\* has closed that socket and ends with a non-zero exit status; the exit
\* status is zero only for a session that completed.
C11_ExitBehaviour ==
    /\ status = "exited" =>
          /\ LastIsErrorFrame
          /\ open[SockOf(trace[Len(trace)].ch)] = "closed"
          /\ exitCode # 0
    /\ (Terminated /\ exitCode = 0) => status = "done"

AllClosed == \A s \in DOMAIN open : open[s] \in {"unopened", "closed"}

\* C12: when the process has terminated, on whatever path, each of the
\* control socket, the data listener and the accepted data socket that was
\* opened is closed.
C12_AllClosed == Terminated => AllClosed

\* C13: every run terminates, whatever the server does: no accept and no
\* receive blocks for ever.
C13_Terminates == <>Terminated

\* C14: whatever bytes the control token consists of, space bytes included,
\* a data-channel message T <token> that carries exactly those bytes passes
\* the token check, and the client goes on to send D <message>.
C14_OpaqueToken ==
    \A i \in Calls :
        (HasControlToken /\ Done(i).at = 137 /\ Done(i).kind = "ok"
            /\ Done(i).dec.message = <<"T", " ">> \o ControlToken
            /\ TokenChecked) =>
            /\ status # "exited"
            /\ DMessageSent

\* C15: the msglen parser and the frame-length parser accept the same
\* strings, and these are the strict decimals: "0", or a non-zero digit
\* followed by digits.
C15_SameGrammar ==
    pc = "parsed" =>
        /\ parsed.msglen.ok = parsed.framelen.ok
        /\ parsed.msglen.ok = StrictDecimal(ret)

\* C16: when the client has detected a failure and the send of the E frame
\* itself fails, the run still ends with the detected error as its
\* diagnostic and with that socket closed.
C16_ErrorNotMasked ==
    \A k \in Events :
        (trace[k].ev = "sendfail" /\ trace[k].err # NoError) =>
            /\ Terminated
            /\ error = trace[k].err
            /\ open[SockOf(trace[k].ch)] = "closed"

PortSent ==
    \E k \in Events :
        trace[k] = SendEv(0, string_to_netstring(<<"C", " ">> \o DecStr(dport)))

\* C17: once C <port> has been sent the data endpoint is already listening,
\* so that no connection of the server to that port is refused.
C17_ListenBeforePort ==
    /\ (PortSent /\ status = "running") => open["listener"] # "bound"
    /\ pending # "refused"

ReceiveLines == {167, 173, 130, 137, 150, 204, 225}
ReturnedAt(l) == \E i \in Calls : Done(i).at = l /\ Done(i).kind = "ok"
MessageAt(l) == Done(CHOOSE i \in Calls : Done(i).at = l).dec.message
DataToken == SubSeq(MessageAt(150), 3, Len(MessageAt(150)))
Framed(payload) == DecStr(Len(payload)) \o <<":">> \o payload \o <<",">>

\* C18: a session completes successfully only if the first control reply was
\* S GRNVS V:1.0, the data peer's address was the destination, the first
\* data message was T GRNVS V:1.0, the data-channel token was the control
\* token, the reported msglen was the byte length of the message and the
\* final control reply was S ACK; and the frame sent just before the final
\* receive holds "C " and the data token's bytes, prefixed by the byte
\* length of that payload.
C18_SuccessOnlyIf ==
    status = "done" =>
        /\ \A l \in ReceiveLines : ReturnedAt(l)
        /\ MessageAt(167) = S_HELLO
        /\ server_address = dst_address
        /\ MessageAt(130) = T_HELLO
        /\ MessageAt(137) = <<"T", " ">> \o ControlToken
        /\ MessageAt(204) = <<"S", " ">> \o DecStr(Len(message))
        /\ MessageAt(225) = S_ACK
        /\ Len(trace) >= 2
        /\ trace[Len(trace)] = RecvEv(0, S_ACK)
        /\ trace[Len(trace) - 1] = SendEv(0, Framed(<<"C", " ">> \o DataToken))

C18_Witness == status = "done" /\ dtoken = <<"a", " ", "b">>

ErrorFrames == {k \in Events : trace[k].ev = "send" /\ trace[k].err # NoError}

\* C19: the client sends at most one E frame over both channels together;
\* the E frame is the last thing it sends or receives on any channel, and
\* with it the run has ended.
C19_SingleNotification ==
    /\ Cardinality(ErrorFrames) <= 1
    /\ \A k \in ErrorFrames :
          /\ k = Len(trace)
          /\ Terminated
          /\ ~rx.active

\* an E frame sent on the data channel after frames were exchanged on both
C19_Witness ==
    /\ ErrorFrames # {}
    /\ trace[Len(trace)].ch = 1
    /\ \E j \in Events : trace[j] = RecvEv(1, T_HELLO)

Residual(c) == IF c = 0 THEN control_netstrings ELSE data_netstrings

RECURSIVE Flatten(_)
Flatten(ss) == IF ss = <<>> THEN <<>> ELSE Head(ss) \o Flatten(Tail(ss))

\* the frame that call i took off the front of its buffer, as received
Consumed(i) == SubSeq(Done(i).buf, 1, Len(Done(i).buf) - Len(Done(i).after))

\* the bytes the first n calls read from the transport of channel c
RECURSIVE ReceivedUpTo(_, _)
ReceivedUpTo(c, n) ==
    IF n = 0 THEN <<>>
    ELSE ReceivedUpTo(c, n - 1)
            \o (IF Done(n).ch = c THEN Flatten(Done(n).segs) ELSE <<>>)

\* the frames the first n calls delivered on channel c, one after the other
RECURSIVE ConsumedUpTo(_, _)
ConsumedUpTo(c, n) ==
    IF n = 0 THEN <<>>
    ELSE ConsumedUpTo(c, n - 1) \o (IF Done(n).ch = c THEN Consumed(n) ELSE <<>>)

\* the residual that the last call on channel c left, empty if there was none
LastAfter(c) ==
    LET on == {i \in Calls : Done(i).ch = c}
    IN IF on = {} THEN <<>>
       ELSE Done(CHOOSE i \in on : \A j \in on : j <= i).after

AllReturned == \A i \in Calls : Done(i).kind = "ok"

\* C20: after any sequence of successful calls on the two channels, for each
\* channel the frames delivered on it, one after the other, followed by the
\* channel's residual are exactly the bytes read so far from that channel's
\* transport; each delivered frame is its length field, ":", the returned
\* message and ","; and a channel's residual is the one its own last call
\* left, whatever calls were made on the other channel.
C20_Conservation ==
    AllReturned =>
        /\ \A c \in {0, 1} :
              /\ ConsumedUpTo(c, Len(log)) \o Residual(c) = ReceivedUpTo(c, Len(log))
              /\ Residual(c) = LastAfter(c)
        /\ \A i \in Calls :
              /\ Consumed(i) = LengthField(Done(i).buf) \o <<":">>
                                  \o Done(i).dec.message \o <<",">>
              /\ StrictDecimal(LengthField(Done(i).buf)) =>
                    Consumed(i) = string_to_netstring(Done(i).dec.message)

\* both channels have delivered a frame and the control channel, which was
\* called first, still holds a residual
C20_Witness ==
    /\ AllReturned /\ Len(log) = 2
    /\ Done(1).ch = 0 /\ Done(2).ch = 1
    /\ control_netstrings # <<>>

====
